---- MODULE Spec2Model ----
(***************************************************************************)
(* Model of two units of the repository:                                   *)
(*   - the optimizer rule RewriteMatch, which rewrites match_all() calls   *)
(*     of a Filter into a disjunction of per-field LIKE / ILIKE            *)
(*     comparisons (service/search/datafusion/optimizer/rewrite_match.rs); *)
(*   - the ingest buffer entry IngestEntry, its binary encoding and its    *)
(*     ingest call (common/infra/ingest_buffer/entry.rs).                  *)
(*                                                                         *)
(* An Option<T> is a sequence of length at most one: <<>> is None and      *)
(* <<x>> is Some(x).  A Rust panic (unwrap on None, unimplemented!) is an  *)
(* outcome of its own, st = "Panic", beside "Ok" and "Err".                *)
(***************************************************************************)
EXTENDS Integers, Sequences, FiniteSets, TLC

VARIABLES
    fields,     \* RewriteMatch.fields: table name -> Vec of field names
    plan,       \* Option: the LogicalPlan node last handed to rewrite
    ret,        \* Option: what that call of rewrite came to
    again,      \* TRUE when plan is the output of the preceding rewrite
    entry,      \* Option: the IngestEntry last operated on
    buf,        \* Option: the bytes into_bytes produced for entry
    decoded,    \* Option: what from_bytes made of (a prefix of) buf
    answer,     \* Option: what the ingester answered to the last ingest
    ingested    \* Option: what the last ingest returned

vars == <<fields, plan, ret, again, entry, buf, decoded, answer, ingested>>

(***************************************************************************)
(* Bounds of the model.                                                    *)
(***************************************************************************)
MaxFields == 3
MaxThreadId == 2
MaxBody == 2

(***************************************************************************)
(* Expr.  Every expression node is a record [k, name, args]: k is the      *)
(* variant, args the children in the order TreeNode visits them, name the  *)
(* payload (literal value, column name, function name, operator, alias).   *)
(***************************************************************************)
Utf8(s) == [k |-> "Utf8", name |-> s, args |-> <<>>]
Utf8None == [k |-> "Utf8None", name |-> "", args |-> <<>>]
Int64(s) == [k |-> "Int64", name |-> s, args |-> <<>>]
ColumnExpr(f) == [k |-> "Column", name |-> f, args |-> <<>>]
ScalarFunction(func, args) == [k |-> "ScalarFunction", name |-> func, args |-> args]
BinaryExpr(left, op, right) == [k |-> "BinaryExpr", name |-> op, args |-> <<left, right>>]
Alias(e, n) == [k |-> "Alias", name |-> n, args |-> <<e>>]

MATCH_ALL_UDF_NAME == "match_all"
MATCH_ALL_RAW_UDF_NAME == "match_all_raw"
MATCH_ALL_RAW_IGNORE_CASE_UDF_NAME == "match_all_raw_ignore_case"

\* Mutant of is_match_all: the raw name is left out of the test.
is_match_all_no_raw(expr) ==
    /\ expr.k = "ScalarFunction"
    /\ \/ expr.name = MATCH_ALL_UDF_NAME
       \/ expr.name = MATCH_ALL_RAW_IGNORE_CASE_UDF_NAME

\* is_match_all: a ScalarFunction with one of the three names.
is_match_all(expr) ==
    /\ expr.k = "ScalarFunction"
    /\ \/ expr.name = MATCH_ALL_UDF_NAME
       \/ expr.name = MATCH_ALL_RAW_IGNORE_CASE_UDF_NAME
       \/ expr.name = MATCH_ALL_RAW_UDF_NAME

\* expr.exists(|expr| Ok(is_match_all(expr))): the node or one below it.
RECURSIVE exists_match_all(_)
exists_match_all(expr) ==
    \/ is_match_all(expr)
    \/ \E i \in DOMAIN expr.args : exists_match_all(expr.args[i])

(***************************************************************************)
(* Results of the expression rewriter: Result<Transformed<Expr>>.          *)
(*   Ok    : data is the expression, transformed the flag;                 *)
(*   Err   : DataFusionError::Internal(msg), arg the offending argument;   *)
(*   Panic : msg names the unwrap that failed.                             *)
(***************************************************************************)
ExprOk(e, t) == [st |-> "Ok", transformed |-> t, data |-> <<e>>, msg |-> "", arg |-> <<>>]
ExprErr(m, a) == [st |-> "Err", transformed |-> FALSE, data |-> <<>>, msg |-> m, arg |-> <<a>>]
ExprPanic(m) == [st |-> "Panic", transformed |-> FALSE, data |-> <<>>, msg |-> m, arg |-> <<>>]

UnexpectedArgument == "Unexpected argument type for match_all() function"
DisjunctionUnwrap == "called Option::unwrap() on a None value: disjunction(expr_list)"
FieldsUnwrap == "called Option::unwrap() on a None value: self.fields.get(&name)"

\* datafusion_expr::utils::disjunction: None for no expression, else the
\* expressions folded with OR from the left.
RECURSIVE reduce_or(_, _)
reduce_or(acc, rest) ==
    IF rest = <<>> THEN acc
    ELSE reduce_or(BinaryExpr(acc, "Or", Head(rest)), Tail(rest))

disjunction(expr_list) ==
    IF expr_list = <<>> THEN <<>>
    ELSE <<reduce_or(Head(expr_list), Tail(expr_list))>>

\* Mutant of operator_of: every call compares case-insensitively.
operator_of_ilike(name) == "ILikeMatch"

\* The operator of a call: LIKE for match_all_raw, ILIKE for the other two.
operator_of(name) ==
    IF name = MATCH_ALL_RAW_UDF_NAME THEN "LikeMatch" ELSE "ILikeMatch"

\* Mutant of f_up: a null string argument is taken for the empty term.
f_up_coerce(expr, flds) ==
    IF expr.k = "ScalarFunction" /\ expr.name \in
            {MATCH_ALL_UDF_NAME, MATCH_ALL_RAW_IGNORE_CASE_UDF_NAME, MATCH_ALL_RAW_UDF_NAME}
    THEN IF expr.args[1].k \notin {"Utf8", "Utf8None"}
         THEN ExprErr(UnexpectedArgument, expr.args[1])
         ELSE LET item == Utf8("%" \o expr.args[1].name \o "%")
                  expr_list == [i \in 1..Len(flds) |->
                                   BinaryExpr(ColumnExpr(flds[i]), operator_of(expr.name), item)]
                  new_expr == disjunction(expr_list)
              IN  IF new_expr = <<>>
                  THEN ExprPanic(DisjunctionUnwrap)
                  ELSE ExprOk(new_expr[1], TRUE)
    ELSE ExprOk(expr, FALSE)

\* MatchToFullTextMatch::f_up on one node whose children are already rewritten.
f_up(expr, flds) ==
    IF expr.k = "ScalarFunction"
    THEN IF \/ expr.name = MATCH_ALL_UDF_NAME
            \/ expr.name = MATCH_ALL_RAW_IGNORE_CASE_UDF_NAME
            \/ expr.name = MATCH_ALL_RAW_UDF_NAME
         THEN IF expr.args[1].k # "Utf8"
              THEN ExprErr(UnexpectedArgument, expr.args[1])
              ELSE LET operator == operator_of(expr.name)
                       item == Utf8("%" \o expr.args[1].name \o "%")
                       expr_list == [i \in 1..Len(flds) |->
                                        BinaryExpr(ColumnExpr(flds[i]), operator, item)]
                       new_expr == disjunction(expr_list)
                   IN  IF new_expr = <<>>
                       THEN ExprPanic(DisjunctionUnwrap)
                       ELSE ExprOk(new_expr[1], TRUE)
         ELSE ExprOk(expr, FALSE)
    ELSE ExprOk(expr, FALSE)

\* TreeNode::rewrite with the rewriter: the children first, left to right,
\* the first failure ending the walk, then f_up on the node.
RECURSIVE rewrite_expr(_, _)
RECURSIVE rewrite_children(_, _)
rewrite_children(args, flds) ==
    IF args = <<>> THEN [st |-> "Ok", transformed |-> FALSE, data |-> <<>>, fail |-> <<>>]
    ELSE LET h == rewrite_expr(Head(args), flds)
         IN  IF h.st # "Ok"
             THEN [st |-> h.st, transformed |-> FALSE, data |-> <<>>, fail |-> <<h>>]
             ELSE LET t == rewrite_children(Tail(args), flds)
                  IN  IF t.st # "Ok" THEN t
                      ELSE [st |-> "Ok", transformed |-> h.transformed \/ t.transformed,
                            data |-> h.data \o t.data, fail |-> <<>>]

\* Mutant of rewrite_expr: f_up on the root only, the children not visited.
rewrite_expr_root_only(expr, flds) == f_up(expr, flds)

rewrite_expr(expr, flds) ==
    LET c == rewrite_children(expr.args, flds)
    IN  IF c.st # "Ok" THEN c.fail[1]
        ELSE LET r == f_up([expr EXCEPT !.args = c.data], flds)
             IN  IF r.st # "Ok" THEN r
                 ELSE ExprOk(r.data[1], c.transformed \/ r.transformed)

\* Expr::display_name, the name rewrite_preserving_name keeps: an Alias shows
\* as its alias, every other node as its own text.
RECURSIVE display_name(_)
display_name(expr) ==
    CASE expr.k = "Alias" -> expr.name
      [] expr.k = "Column" -> expr.name
      [] expr.k = "Utf8" -> "Utf8(" \o expr.name \o ")"
      [] expr.k = "Utf8None" -> "Utf8(NULL)"
      [] expr.k = "Int64" -> "Int64(" \o expr.name \o ")"
      [] expr.k = "ScalarFunction" ->
            expr.name \o "(" \o display_name(expr.args[1]) \o ")"
      [] OTHER ->
            display_name(expr.args[1]) \o " " \o expr.name \o " "
                \o display_name(expr.args[2])

\* rewrite_preserving_name(expr, &mut expr_rewriter): the rewritten
\* expression, aliased to the original name when its name changed.
rewrite_preserving_name(expr, flds) ==
    LET original_name == display_name(expr)
        r == rewrite_expr(expr, flds)
    IN  IF r.st # "Ok" THEN r
        ELSE IF display_name(r.data[1]) = original_name THEN r
        ELSE ExprOk(Alias(r.data[1], original_name), r.transformed)

(***************************************************************************)
(* LogicalPlan.  Every plan node is a record [k, table_name, exprs,        *)
(* inputs]: exprs are the node's expressions(), inputs its children in     *)
(* the order TreeNode visits them.  A table name is the sequence of its    *)
(* characters, so that it can be split at '.'.                             *)
(***************************************************************************)
TableScan(n) == [k |-> "TableScan", table_name |-> n, exprs |-> <<>>, inputs |-> <<>>]
EmptyRelation == [k |-> "EmptyRelation", table_name |-> <<>>, exprs |-> <<>>, inputs |-> <<>>]
Filter(predicate, input) ==
    [k |-> "Filter", table_name |-> <<>>, exprs |-> <<predicate>>, inputs |-> <<input>>]
Projection(exprs, input) ==
    [k |-> "Projection", table_name |-> <<>>, exprs |-> exprs, inputs |-> <<input>>]
Join(left, right) ==
    [k |-> "Join", table_name |-> <<>>, exprs |-> <<>>, inputs |-> <<left, right>>]

\* TableNameVisitor::new: the name is the empty string.  seen is the list of
\* the nodes f_up was called on, kept to tell where the walk stopped.
TableNameVisitor_new == [name |-> <<>>, seen |-> <<>>]

\* Mutant of TableNameVisitor_f_up: a TableScan sets the name, the walk goes on.
TableNameVisitor_f_up_continue(v, p) ==
    IF p.k = "TableScan"
    THEN [tnr |-> "Continue", v |-> [name |-> p.table_name, seen |-> Append(v.seen, p)]]
    ELSE [tnr |-> "Continue", v |-> [v EXCEPT !.seen = Append(@, p)]]

\* TableNameVisitor::f_up: a TableScan sets the name and stops the walk.
TableNameVisitor_f_up(v, p) ==
    IF p.k = "TableScan"
    THEN [tnr |-> "Stop", v |-> [name |-> p.table_name, seen |-> Append(v.seen, p)]]
    ELSE [tnr |-> "Continue", v |-> [v EXCEPT !.seen = Append(@, p)]]

\* TreeNode::visit: the children in order, then f_up on the node; Stop ends
\* the whole walk (f_down is the default, Continue).
RECURSIVE visit(_, _)
RECURSIVE visit_inputs(_, _)
visit_inputs(v, inputs) ==
    IF inputs = <<>> THEN [tnr |-> "Continue", v |-> v]
    ELSE LET h == visit(v, Head(inputs))
         IN  IF h.tnr = "Stop" THEN h ELSE visit_inputs(h.v, Tail(inputs))

visit(v, p) ==
    LET c == visit_inputs(v, p.inputs)
    IN  IF c.tnr = "Stop" THEN c ELSE TableNameVisitor_f_up(c.v, p)

\* name.split('.'): the segments between the dots, at least one.
RECURSIVE split_dot(_, _)
split_dot(name, cur) ==
    IF name = <<>> THEN <<cur>>
    ELSE IF Head(name) = "." THEN <<cur>> \o split_dot(Tail(name), <<>>)
    ELSE split_dot(Tail(name), Append(cur, Head(name)))

\* Mutant of strip_prefix: the first segment instead of the last.
strip_prefix_first(name) ==
    LET parts == split_dot(name, <<>>) IN parts[1]

\* strip_prefix: name.split('.').last().unwrap()
strip_prefix(name) ==
    LET parts == split_dot(name, <<>>) IN parts[Len(parts)]

\* get_table_name: the visitor's name after the walk, prefix stripped.
get_table_name(p) == strip_prefix(visit(TableNameVisitor_new, p).v.name)

(***************************************************************************)
(* Result<Transformed<LogicalPlan>> of RewriteMatch::rewrite, with what    *)
(* the call did on the way: key is the Option of the name it looked up in  *)
(* fields (None: no lookup), seen the nodes the table name visitor saw.    *)
(***************************************************************************)
PlanOk(p, t, key, seen) ==
    [st |-> "Ok", transformed |-> t, data |-> <<p>>, msg |-> "", arg |-> <<>>,
     key |-> key, seen |-> seen]
PlanFail(r, key, seen) ==
    [st |-> r.st, transformed |-> FALSE, data |-> <<>>, msg |-> r.msg, arg |-> r.arg,
     key |-> key, seen |-> seen]

\* plan.map_expressions(|expr| rewrite_preserving_name(..)): every
\* expression of the node in order, the first failure ending it.
RECURSIVE map_expressions(_, _)
map_expressions(exprs, flds) ==
    IF exprs = <<>> THEN [st |-> "Ok", data |-> <<>>, fail |-> <<>>]
    ELSE LET h == rewrite_preserving_name(Head(exprs), flds)
         IN  IF h.st # "Ok" THEN [st |-> h.st, data |-> <<>>, fail |-> <<h>>]
             ELSE LET t == map_expressions(Tail(exprs), flds)
                  IN  IF t.st # "Ok" THEN t
                      ELSE [st |-> "Ok", data |-> h.data \o t.data, fail |-> <<>>]

\* RewriteMatch::rewrite
rewrite(flds_map, p) ==
    IF p.k = "Filter"
    THEN IF \E i \in DOMAIN p.exprs : exists_match_all(p.exprs[i])
         THEN LET seen == visit(TableNameVisitor_new, p).v.seen
                  name == get_table_name(p)
              IN  IF name \notin DOMAIN flds_map
                  THEN PlanFail(ExprPanic(FieldsUnwrap), <<name>>, seen)
                  ELSE LET m == map_expressions(p.exprs, flds_map[name])
                       IN  IF m.st # "Ok" THEN PlanFail(m.fail[1], <<name>>, seen)
                           ELSE PlanOk([p EXCEPT !.exprs = m.data], TRUE, <<name>>, seen)
         ELSE PlanOk(p, FALSE, <<>>, <<>>)
    ELSE PlanOk(p, FALSE, <<>>, <<>>)

(***************************************************************************)
(* The inputs of the rewrite rule the model draws from.                    *)
(***************************************************************************)
Terms == {"a", "b"}
FieldNames == <<"name", "log", "msg">>
FtNames == {MATCH_ALL_UDF_NAME, MATCH_ALL_RAW_UDF_NAME, MATCH_ALL_RAW_IGNORE_CASE_UDF_NAME}

\* Field Sets: up to MaxFields names, taken in turn from FieldNames starting
\* at any of them (so the same names occur in different orders).
FieldSets ==
    {[i \in 1..n |-> FieldNames[((i + off) % Len(FieldNames)) + 1]] :
        n \in 0..MaxFields, off \in 0..(Len(FieldNames) - 1)}

\* Table names as character sequences: t, u, catalog.schema.t, s.u
NameT == <<"t">>
NameU == <<"u">>
NameCST == <<"c", ".", "s", ".", "t">>
NameSU == <<"s", ".", "u">>
TableNames == {NameT, NameU, NameCST, NameSU}

\* Registries (RewriteMatch::new(fields)): t registered with any Field Set or
\* not at all, the empty name registered with [name] or not at all; u never.
Registries ==
    {r \in UNION {[K -> FieldSets] : K \in SUBSET {NameT, <<>>}} :
        <<>> \in DOMAIN r => r[<<>>] = <<"name">>}

\* Arguments of a call that are string literals, and ones that are not.
StringArgs == {Utf8(s) : s \in Terms}
OtherArgs == {ColumnExpr("name"), Int64("1"), Utf8None}

\* Calls: the three full-text names and one other function, on any argument;
\* calls on a call; a comparison without any call.
Calls == {ScalarFunction(n, <<x>>) : n \in FtNames \cup {"lower"}, x \in StringArgs \cup OtherArgs}
NestedCalls ==
    {ScalarFunction(n, <<ScalarFunction(m, <<x>>)>>) :
        n \in {MATCH_ALL_UDF_NAME, "lower"}, m \in {MATCH_ALL_RAW_UDF_NAME, "lower"},
        x \in {Utf8("a"), ColumnExpr("name")}}
Comparisons ==
    {BinaryExpr(ColumnExpr("name"), "Eq", Utf8("a")),
     BinaryExpr(ColumnExpr("log"), "ILikeMatch", Utf8("%a%"))}
Operands ==
    {ScalarFunction(MATCH_ALL_UDF_NAME, <<Utf8("a")>>),
     ScalarFunction(MATCH_ALL_RAW_UDF_NAME, <<Utf8("b")>>),
     ScalarFunction(MATCH_ALL_RAW_IGNORE_CASE_UDF_NAME, <<Utf8("a")>>),
     ScalarFunction(MATCH_ALL_UDF_NAME, <<ColumnExpr("name")>>),
     BinaryExpr(ColumnExpr("name"), "Eq", Utf8("a"))}
Predicates ==
    Calls \cup NestedCalls \cup Comparisons
        \cup {BinaryExpr(l, op, r) : l \in Operands, r \in Operands, op \in {"And", "Or"}}

\* Plans below a filter: a leaf, a projection of a leaf, a join of two.
Leaves == {EmptyRelation} \cup {TableScan(n) : n \in TableNames}
Inputs ==
    Leaves \cup {Projection(<<ColumnExpr("name")>>, l) : l \in Leaves}
        \cup {Join(l, r) : l \in Leaves, r \in Leaves}
        \cup {Join(Join(EmptyRelation, TableScan(NameCST)), TableScan(NameU)),
              Join(Projection(<<ColumnExpr("name")>>, EmptyRelation), TableScan(NameSU))}

\* Nodes handed to rewrite: filters (every predicate over a few inputs, a
\* few predicates over every input), and nodes of other kinds (a projection
\* may carry a call too).
Plans ==
    {Filter(e, i) : e \in Predicates, i \in {TableScan(NameT), TableScan(NameU), EmptyRelation}}
        \cup {Filter(e, i) :
                e \in {ScalarFunction(MATCH_ALL_UDF_NAME, <<Utf8("a")>>),
                       ScalarFunction(MATCH_ALL_UDF_NAME, <<ColumnExpr("name")>>),
                       BinaryExpr(ColumnExpr("name"), "Eq", Utf8("a"))},
                i \in Inputs}
        \cup Leaves
        \cup {Projection(<<e>>, TableScan(NameT)) :
                e \in {ScalarFunction(MATCH_ALL_UDF_NAME, <<Utf8("a")>>), ColumnExpr("name")}}
        \cup {Join(TableScan(NameT), TableScan(NameU))}

(***************************************************************************)
(* The rewrite rule as a state machine.                                    *)
(***************************************************************************)
InitRule ==
    /\ fields \in Registries
    /\ plan = <<>>
    /\ ret = <<>>
    /\ again = FALSE

\* The optimizer hands a node to the rule.  The rule keeps no state between
\* calls (rewrite takes &self and writes nothing), so a behaviour follows one
\* call and the call on its output.
Rewrite(p) ==
    /\ plan = <<>>
    /\ plan' = <<p>>
    /\ ret' = <<rewrite(fields, p)>>
    /\ again' = FALSE
    /\ UNCHANGED <<fields, entry, buf, decoded, answer, ingested>>

\* The rule is applied to the node it just returned.
RewriteOutput ==
    /\ ret # <<>>
    /\ ret[1].st = "Ok"
    /\ ~again
    /\ plan' = ret[1].data
    /\ ret' = <<rewrite(fields, ret[1].data[1])>>
    /\ again' = TRUE
    /\ UNCHANGED <<fields, entry, buf, decoded, answer, ingested>>

(***************************************************************************)
(* IngestEntry.  A string or a body is the sequence of its bytes.          *)
(***************************************************************************)
USIZE_BYTES == 8
U16_RANGE == 65536
SERVICE_UNAVAILABLE == 503

IngestSources == {"Bulk", "Multi", "JSON", "KinesisFH", "GCP"}

\* IngestEntry::new
IngestEntry_new(source, thread_id, org_id, user_email, stream_name, body) ==
    [source |-> source, thread_id |-> thread_id, org_id |-> org_id,
     user_email |-> user_email, stream_name |-> stream_name, body |-> body]

\* impl From<&IngestSource> for u8
u8_from(source) ==
    CASE source = "Bulk" -> 1
      [] source = "Multi" -> 2
      [] source = "JSON" -> 3
      [] source = "KinesisFH" -> 4
      [] source = "GCP" -> 5

\* impl TryFrom<u8> for IngestSource: Option of the source
try_from(value) ==
    CASE value = 1 -> <<"Bulk">>
      [] value = 2 -> <<"Multi">>
      [] value = 3 -> <<"JSON">>
      [] value = 4 -> <<"KinesisFH">>
      [] value = 5 -> <<"GCP">>
      [] OTHER -> <<>>

\* n.to_be_bytes() in width bytes, the most significant byte first.
RECURSIVE to_be_bytes(_, _)
to_be_bytes(n, width) ==
    IF width = 0 THEN <<>>
    ELSE Append(to_be_bytes(n \div 256, width - 1), n % 256)

\* write_u16::<BigEndian>(len as u16): the length cut to 16 bits.
write_u16(len) == to_be_bytes(len % U16_RANGE, 2)

\* IngestEntry::into_bytes: writing to a Vec never fails.
into_bytes(e) ==
    <<u8_from(e.source)>>
        \o to_be_bytes(e.thread_id, USIZE_BYTES)
        \o write_u16(Len(e.org_id)) \o e.org_id
        \o write_u16(Len(e.user_email)) \o e.user_email
        \o (IF e.stream_name = <<>> THEN <<0>>
            ELSE <<1>> \o write_u16(Len(e.stream_name[1])) \o e.stream_name[1])
        \o write_u16(Len(e.body)) \o e.body

\* Cursor::read_exact of n bytes at position pos (bytes already read):
\* Option of the bytes, None when fewer than n are left.
read_exact(value, pos, n) ==
    IF pos + n > Len(value) THEN <<>>
    ELSE <<SubSeq(value, pos + 1, pos + n)>>

\* Cursor::read_u16::<BigEndian>: Option of the number.
read_u16(value, pos) ==
    LET b == read_exact(value, pos, 2)
    IN  IF b = <<>> THEN <<>> ELSE <<b[1][1] * 256 + b[1][2]>>

\* String::from_utf8 succeeds on the strings the model encodes (ASCII).
from_utf8_ok(bytes) == \A i \in DOMAIN bytes : bytes[i] < 128

DecodeOk(e) == [st |-> "Ok", data |-> <<e>>, msg |-> ""]
DecodeErr(m) == [st |-> "Err", data |-> <<>>, msg |-> m]

\* A length-prefixed field at pos: [ok, bytes, next] (next: the position after).
read_prefixed(value, pos) ==
    LET len == read_u16(value, pos)
    IN  IF len = <<>> THEN [ok |-> FALSE, bytes |-> <<>>, next |-> pos]
        ELSE LET b == read_exact(value, pos + 2, len[1])
             IN  IF b = <<>> THEN [ok |-> FALSE, bytes |-> <<>>, next |-> pos]
                 ELSE [ok |-> TRUE, bytes |-> b[1], next |-> pos + 2 + len[1]]

\* IngestEntry::from_bytes
from_bytes(value) ==
    LET source == read_exact(value, 0, 1)
        thread_id == read_exact(value, 1, USIZE_BYTES)
    IN
    IF source = <<>> THEN DecodeErr("failed at reading <source>")
    ELSE IF thread_id = <<>> THEN DecodeErr("failed at <thread_id>")
    ELSE IF try_from(source[1][1]) = <<>> THEN DecodeErr("failed at converting <source>")
    ELSE
    LET org_id == read_prefixed(value, 1 + USIZE_BYTES) IN
    IF ~org_id.ok THEN DecodeErr("failed at reading <org_id>")
    ELSE IF ~from_utf8_ok(org_id.bytes) THEN DecodeErr("failed at converting <org_id>")
    ELSE
    LET user_email == read_prefixed(value, org_id.next) IN
    IF ~user_email.ok THEN DecodeErr("failed at reading <user_email>")
    ELSE IF ~from_utf8_ok(user_email.bytes)
    THEN DecodeErr("failed at converting <user_email>")
    ELSE
    LET stream_name_op == read_exact(value, user_email.next, 1) IN
    IF stream_name_op = <<>> THEN DecodeErr("failed at reading <stream_name_indicator>")
    ELSE
    LET sn == IF stream_name_op[1][1] = 0
              THEN [ok |-> TRUE, bytes |-> <<>>, next |-> user_email.next + 1]
              ELSE read_prefixed(value, user_email.next + 1)
        stream_name == IF stream_name_op[1][1] = 0 THEN <<>> ELSE <<sn.bytes>>
    IN
    IF ~sn.ok THEN DecodeErr("failed at reading <stream_name>")
    ELSE IF ~from_utf8_ok(sn.bytes) THEN DecodeErr("failed at converting <stream_name>")
    ELSE
    LET body == read_prefixed(value, sn.next) IN
    IF ~body.ok THEN DecodeErr("failed at reading <body>")
    ELSE DecodeOk(IngestEntry_new(try_from(source[1][1])[1], thread_id[1][1],
                                  org_id.bytes, user_email.bytes, stream_name, body.bytes))

\* What the ingester (logs::bulk::ingest, logs::ingest::ingest) may answer:
\* a response with a code, or an error.
IngesterOk(code) == [st |-> "Ok", code |-> code]
IngesterErr == [st |-> "Err", code |-> 0]
Answers == {IngesterOk(200), IngesterOk(SERVICE_UNAVAILABLE), IngesterErr}

\* Result<bool> of ingest; called tells whether the ingester was called.
IngestOk(retry) == [st |-> "Ok", retry |-> retry, called |-> TRUE, msg |-> ""]
IngestErr(called, m) == [st |-> "Err", retry |-> FALSE, called |-> called, msg |-> m]
IngestPanic(m) == [st |-> "Panic", retry |-> FALSE, called |-> FALSE, msg |-> m]

\* IngestEntry::ingest, ans being the ingester's answer if it is called.
ingest(e, ans) ==
    CASE e.source = "Bulk" ->
            IF ans.st = "Ok" THEN IngestOk(FALSE) ELSE IngestErr(TRUE, "ingester")
      [] e.source \in {"Multi", "JSON"} ->
            IF e.stream_name = <<>>
            THEN IngestErr(FALSE, "requires stream_name but received none")
            ELSE IF ans.st = "Ok" THEN IngestOk(ans.code = SERVICE_UNAVAILABLE)
            ELSE IngestErr(TRUE, "ingester")
      [] OTHER -> IngestPanic("not implemented: Ingest type to be implemented")

(***************************************************************************)
(* The entries the model draws from.                                       *)
(***************************************************************************)
ThreadIds == 0..MaxThreadId
OrgIds == {<<111>>, <<111, 50>>}
UserEmails == {<<114, 64, 101>>}
StreamNames == {<<>>, <<<<>>>>, <<<<115>>>>}
BodyBytes == {0, 123}
Bodies == UNION {[1..n -> BodyBytes] : n \in 0..MaxBody}
Entries ==
    {IngestEntry_new(s, t, o, u, n, b) :
        s \in IngestSources, t \in ThreadIds, o \in OrgIds, u \in UserEmails,
        n \in StreamNames, b \in Bodies}

InitEntry ==
    /\ entry = <<>>
    /\ buf = <<>>
    /\ decoded = <<>>
    /\ answer = <<>>
    /\ ingested = <<>>

\* An entry is encoded for the buffer.  Neither into_bytes, from_bytes nor
\* ingest writes to the entry, so a behaviour follows one entry.
IntoBytes(e) ==
    /\ entry = <<>>
    /\ entry' = <<e>>
    /\ buf' = <<into_bytes(e)>>
    /\ decoded' = <<>>
    /\ answer' = <<>>
    /\ ingested' = <<>>
    /\ UNCHANGED <<fields, plan, ret, again>>

\* The first n bytes of the buffer are decoded (all of them: the entry as
\* it was written; fewer: a truncated record).
FromBytes ==
    /\ buf # <<>>
    /\ decoded = <<>>
    /\ \E n \in 0..Len(buf[1]) :
          decoded' = <<[len |-> n, res |-> from_bytes(SubSeq(buf[1], 1, n))]>>
    /\ UNCHANGED <<fields, plan, ret, again, entry, buf, answer, ingested>>

\* An entry is ingested; the ingester, if called, answers ans.
Ingest(e, ans) ==
    /\ entry = <<>>
    /\ entry' = <<e>>
    /\ buf' = <<>>
    /\ decoded' = <<>>
    /\ ingested' = <<ingest(e, ans)>>
    /\ answer' = IF ingested'[1].called THEN <<ans>> ELSE <<>>
    /\ UNCHANGED <<fields, plan, ret, again>>

(***************************************************************************)
(* Specifications.                                                         *)
(***************************************************************************)
Init == InitRule /\ InitEntry

Next ==
    \/ \E p \in Plans : Rewrite(p)
    \/ RewriteOutput

Spec == Init /\ [][Next]_vars

InitE == fields = [t \in {} |-> <<>>] /\ plan = <<>> /\ ret = <<>> /\ again = FALSE /\ InitEntry

NextEntry ==
    \/ \E e \in Entries : IntoBytes(e)
    \/ FromBytes
    \/ \E e \in Entries, ans \in Answers : Ingest(e, ans)

SpecEntry == InitE /\ [][NextEntry]_vars

(***************************************************************************)
(* Vocabulary of the properties, defined apart from the code's own         *)
(* functions.                                                              *)
(***************************************************************************)
\* A call of rewrite has returned (or panicked).
Called == plan # <<>> /\ ret # <<>>

\* Every node of an expression tree / of a plan tree.
RECURSIVE SubExprs(_)
SubExprs(e) == {e} \cup UNION {SubExprs(e.args[i]) : i \in DOMAIN e.args}

RECURSIVE SubPlans(_)
SubPlans(p) == {p} \cup UNION {SubPlans(p.inputs[i]) : i \in DOMAIN p.inputs}

\* A Full-Text Call: a function call with one of the three names.
IsFullTextCall(e) == e.k = "ScalarFunction" /\ e.name \in FtNames
FullTextCalls(p) ==
    UNION {{e \in SubExprs(p.exprs[i]) : IsFullTextCall(e)} : i \in DOMAIN p.exprs}
FilterWithCall(p) == p.k = "Filter" /\ FullTextCalls(p) # {}

\* A Full-Text Call whose argument is not a string literal.
IsBadCall(e) == IsFullTextCall(e) /\ e.args[1].k # "Utf8"

\* The nodes of a plan in depth-first post-order.
RECURSIVE PostOrder(_)
RECURSIVE PostOrderAll(_)
PostOrderAll(ps) == IF ps = <<>> THEN <<>> ELSE PostOrder(Head(ps)) \o PostOrderAll(Tail(ps))
PostOrder(p) == PostOrderAll(p.inputs) \o <<p>>

ScanIndexes(po) == {i \in DOMAIN po : po[i].k = "TableScan"}
HasScan(p) == ScanIndexes(PostOrder(p)) # {}
FirstScanIndex(po) == CHOOSE i \in ScanIndexes(po) : \A j \in ScanIndexes(po) : i <= j

\* The part of a name after its last '.', the whole name if it has none.
AfterLastDot(name) ==
    LET dots == {i \in DOMAIN name : name[i] = "."}
    IN  IF dots = {} THEN name
        ELSE SubSeq(name, (CHOOSE i \in dots : \A j \in dots : j <= i) + 1, Len(name))

\* The registry key of the table a filter applies to.
TableKey(p) == AfterLastDot(PostOrder(p)[FirstScanIndex(PostOrder(p))].table_name)

(***************************************************************************)
(* C1.  A filter with a Full-Text Call over a table that has no entry in   *)
(* the registry makes rewrite return an explicit error: no panic, no plan. *)
(* The code unwraps the missing entry and panics.                          *)
(***************************************************************************)
C1_MissingEntryIsError ==
    (Called /\ FilterWithCall(plan[1]) /\ HasScan(plan[1])
        /\ TableKey(plan[1]) \notin DOMAIN fields)
    => ret[1].st = "Err"

(***************************************************************************)
(* C2.  With a non-empty Field Set and string-literal arguments, the       *)
(* rewritten predicate is the reference expansion: every Full-Text Call    *)
(* replaced by column(f1) op '%s%' OR ... OR column(fn) op '%s%', grouped  *)
(* from the left in Field Set order, op being LIKE for match_all_raw and   *)
(* ILIKE for the other two; every other node is as it was.  This is what  *)
(* the expander returns, and what the returned filter holds below the      *)
(* alias that keeps the predicate's name.                                  *)
(***************************************************************************)
ReferenceOp(name) ==
    CASE name = "match_all_raw" -> "LikeMatch"
      [] name = "match_all" -> "ILikeMatch"
      [] name = "match_all_raw_ignore_case" -> "ILikeMatch"

RECURSIVE OrChain(_, _, _, _)
OrChain(fs, op, s, n) ==
    LET cmp == BinaryExpr(ColumnExpr(fs[n]), op, Utf8("%" \o s \o "%"))
    IN  IF n = 1 THEN cmp ELSE BinaryExpr(OrChain(fs, op, s, n - 1), "Or", cmp)

RECURSIVE Reference(_, _)
Reference(e, fs) ==
    IF IsFullTextCall(e)
    THEN OrChain(fs, ReferenceOp(e.name), e.args[1].name, Len(fs))
    ELSE [e EXCEPT !.args = [i \in DOMAIN e.args |-> Reference(e.args[i], fs)]]

Unaliased(e) == IF e.k = "Alias" THEN e.args[1] ELSE e

C2_Case ==
    /\ Called
    /\ FilterWithCall(plan[1])
    /\ \A e \in FullTextCalls(plan[1]) : ~IsBadCall(e)
    /\ ret[1].key # <<>>
    /\ ret[1].key[1] \in DOMAIN fields
    /\ fields[ret[1].key[1]] # <<>>

C2_ExpansionIsReference ==
    C2_Case =>
        /\ ret[1].st = "Ok"
        /\ \A i \in DOMAIN plan[1].exprs :
              /\ rewrite_expr(plan[1].exprs[i], fields[ret[1].key[1]])
                    = ExprOk(Reference(plan[1].exprs[i], fields[ret[1].key[1]]), TRUE)
              /\ Unaliased(ret[1].data[1].exprs[i])
                    = Reference(plan[1].exprs[i], fields[ret[1].key[1]])
        /\ ret[1].data[1].inputs = plan[1].inputs

\* match_all('a') AND/OR match_all_raw('b') over a table of three fields.
C2_Witness ==
    /\ C2_Case
    /\ ~again
    /\ Len(fields[ret[1].key[1]]) = 3
    /\ plan[1].exprs[1].k = "BinaryExpr"
    /\ plan[1].exprs[1].args[1] = ScalarFunction("match_all", <<Utf8("a")>>)
    /\ plan[1].exprs[1].args[2] = ScalarFunction("match_all_raw", <<Utf8("b")>>)
    /\ ret[1].st = "Ok"

(***************************************************************************)
(* C3.  When rewrite succeeds on a filter, the returned predicate holds    *)
(* no Full-Text Call, and rewrite applied to the returned node gives that  *)
(* node back, marked unchanged.                                            *)
(***************************************************************************)
C3_Idempotent ==
    (Called /\ plan[1].k = "Filter" /\ ret[1].st = "Ok")
    => /\ FullTextCalls(ret[1].data[1]) = {}
       /\ again => /\ ret[1].data = plan
                   /\ ~ret[1].transformed

\* The second pass over a filter the first pass rewrote.
C3_Witness ==
    /\ Called
    /\ again
    /\ plan[1].k = "Filter"
    /\ plan[1].exprs[1].k = "Alias"
    /\ ret[1].st = "Ok"
    /\ ~ret[1].transformed

(***************************************************************************)
(* C4.  A result of rewrite is marked transformed exactly when the node is *)
(* a filter whose predicate holds a Full-Text Call at some depth; any      *)
(* other node comes back as it was, unchanged, with no table resolved and  *)
(* no registry lookup.                                                     *)
(***************************************************************************)
C4_TransformedIffCall ==
    Called =>
        /\ ret[1].st = "Ok" => (ret[1].transformed <=> FilterWithCall(plan[1]))
        /\ ~FilterWithCall(plan[1]) =>
              /\ ret[1].st = "Ok"
              /\ ret[1].data = plan
              /\ ~ret[1].transformed
              /\ ret[1].key = <<>>
              /\ ret[1].seen = <<>>

\* A filter whose call lies below another function: lower(match_all_raw(..)).
C4_Witness ==
    /\ Called
    /\ ~again
    /\ plan[1].k = "Filter"
    /\ plan[1].exprs[1].name = "lower"
    /\ plan[1].exprs[1].args[1].name = "match_all_raw"
    /\ ret[1].st = "Ok"
    /\ ret[1].transformed

(***************************************************************************)
(* C5.  A filter with a Full-Text Call over a subtree without any table    *)
(* scan makes rewrite return an explicit 'no table found' error; it does   *)
(* not panic and looks up no default or empty name.  The code looks up the *)
(* empty name, and panics when that is not registered.                     *)
(***************************************************************************)
C5_NoTableIsError ==
    (Called /\ FilterWithCall(plan[1]) /\ ~HasScan(plan[1]))
    => /\ ret[1].st = "Err"
       /\ ret[1].key = <<>>

(***************************************************************************)
(* C6.  A Full-Text Call whose argument is not a string literal makes the  *)
(* expander return an explicit error and no expression: f_up answers Err   *)
(* on that node whatever the Field Set, rewrite never returns a plan for a *)
(* predicate holding such a call, the error it returns is that one, with   *)
(* the argument as it was, and it returns it whenever the expander ran on  *)
(* a non-empty Field Set.                                                  *)
(***************************************************************************)
BadCalls(p) == {e \in FullTextCalls(p) : IsBadCall(e)}

C6_BadArgumentIsError ==
    (Called /\ plan[1].k = "Filter" /\ BadCalls(plan[1]) # {})
    => /\ \A e \in BadCalls(plan[1]) : \A fs \in FieldSets :
              f_up(e, fs) = ExprErr(UnexpectedArgument, e.args[1])
       /\ ret[1].st # "Ok"
       /\ ret[1].data = <<>>
       /\ ret[1].st = "Err" =>
              /\ ret[1].msg = UnexpectedArgument
              /\ ret[1].arg # <<>>
              /\ ret[1].arg[1].k # "Utf8"
       /\ (ret[1].key[1] \in DOMAIN fields /\ fields[ret[1].key[1]] # <<>>)
              => ret[1].st = "Err"

\* match_all(match_all_raw('a')): the argument is the rewritten inner call.
C6_Witness ==
    /\ Called
    /\ plan[1].k = "Filter"
    /\ plan[1].exprs[1] =
          ScalarFunction("match_all", <<ScalarFunction("match_all_raw", <<Utf8("a")>>)>>)
    /\ ret[1].st = "Err"
    /\ ret[1].arg[1].k = "BinaryExpr"

(***************************************************************************)
(* C7.  from_bytes(into_bytes(e)) is e, in every field.  The code reads    *)
(* the thread id back from the first (most significant) of its 8 bytes.    *)
(***************************************************************************)
C7_RoundTrip ==
    (entry # <<>> /\ buf # <<>> /\ decoded # <<>> /\ decoded[1].len = Len(buf[1]))
    => decoded[1].res = DecodeOk(entry[1])

(***************************************************************************)
(* C8.  The table of a filter is the first table scan met in a depth-first *)
(* post-order walk of the filter's subtree: the walk stops at that node,   *)
(* so no later scan takes its place, and it sees nodes of the subtree only.*)
(***************************************************************************)
C8_Case == Called /\ FilterWithCall(plan[1]) /\ HasScan(plan[1])

C8_FirstScanPostOrder ==
    C8_Case =>
        LET po == PostOrder(plan[1])
            first == FirstScanIndex(po)
        IN  /\ ret[1].seen = SubSeq(po, 1, first)
            /\ ret[1].key = <<TableKey(plan[1])>>
            /\ \A i \in DOMAIN ret[1].seen : ret[1].seen[i] \in SubPlans(plan[1])

\* A join of two scans of different tables, below the filter.
C8_Witness ==
    /\ C8_Case
    /\ plan[1].inputs[1].k = "Join"
    /\ plan[1].inputs[1].inputs[1] = TableScan(NameU)
    /\ plan[1].inputs[1].inputs[2] = TableScan(NameT)
    /\ ret[1].key = <<NameU>>
    /\ Len(ret[1].seen) = 1

(***************************************************************************)
(* C9.  The key looked up in the registry is the part of the scan's table  *)
(* name after its last '.', the whole name when it has none: a scan of     *)
(* c.s.t and a scan of t look up the same key, t.                          *)
(***************************************************************************)
C9_Case ==
    /\ Called
    /\ ret[1].key # <<>>
    /\ ret[1].seen # <<>>
    /\ ret[1].seen[Len(ret[1].seen)].k = "TableScan"

C9_KeyIsLastSegment ==
    C9_Case =>
        LET scanned == ret[1].seen[Len(ret[1].seen)].table_name
        IN  /\ ret[1].key[1] = AfterLastDot(scanned)
            /\ scanned \in {NameCST, NameT} => ret[1].key[1] = NameT

C9_Witness ==
    /\ C9_Case
    /\ ret[1].seen[Len(ret[1].seen)].table_name = NameCST
    /\ ret[1].key = <<NameT>>
    /\ ret[1].st = "Ok"
    /\ ret[1].transformed

(***************************************************************************)
(* C10.  For a Bulk, Multi or JSON entry, ingest returns Ok(true) exactly  *)
(* when the ingester answered 503, Ok(false) for any other answer, and the *)
(* ingester's error as Err.  The code answers Ok(false) for every Bulk     *)
(* answer, 503 included.                                                   *)
(***************************************************************************)
C10_RetryOn503 ==
    (entry # <<>> /\ ingested # <<>> /\ answer # <<>>
        /\ entry[1].source \in {"Bulk", "Multi", "JSON"})
    => IF answer[1].st = "Ok"
       THEN ingested[1].st = "Ok" /\ (ingested[1].retry <=> answer[1].code = 503)
       ELSE ingested[1].st = "Err"

(***************************************************************************)
(* C11.  A filter with a Full-Text Call over a table registered with an    *)
(* empty Field Set makes rewrite return a value, a rewritten plan or an    *)
(* explicit error: it never aborts while combining the zero comparisons.   *)
(* The code unwraps disjunction of the empty list, which is None.          *)
(***************************************************************************)
C11_EmptyFieldSetReturns ==
    (Called /\ FilterWithCall(plan[1]) /\ HasScan(plan[1])
        /\ TableKey(plan[1]) \in DOMAIN fields
        /\ fields[TableKey(plan[1])] = <<>>)
    => ret[1].st \in {"Ok", "Err"}

====
